---- MODULE Spec2Model ----
\* Model of mustamir_cme_extractor.py: one shard worker (main) driving a remote
\* paginated list through a browser, with the paginator protocol (click_next,
\* click_next_k, fast_forward_to_page), the per-row recovery (recover_list) and
\* the optional master uploads (maybe_upload_master). save_row_to_excels,
\* s3_upload_file and click_next_k are also followed on their own, over the
\* inputs they can be called with (SpecSave, SpecUpload, SpecPaginator).
EXTENDS Integers, Sequences, FiniteSets, TLC

\* ---------------------------------------------------------------- bounds
MaxPages == 3        \* the remote list has 1..MaxPages pages
MaxShards == 2       \* --shard-count ranges over 0..MaxShards
MaxRows == 2         \* rows.count() ranges over 0..MaxRows
MaxCap == 1          \* --max-pages ranges over 0..MaxCap
MaxStart == MaxCap + 1       \* --start-page ranges over 0..MaxStart
MaxEvery == MaxRows + 1      \* --s3-master-upload-every: 1..MaxEvery
MaxProcessed == MaxCap + 1   \* the page loop is followed this many pages
MaxSteps == MaxPages         \* a fast-forward is followed this many steps

\* ------------------------------------------------------- program constants
retries == 3             \* click_next(container, retries=3)
hard_cap_steps == 4000   \* fast_forward_to_page(..., hard_cap_steps=4000)
None == 0                \* Optional[int] None; falsy like the integer 0

\* Classes of misbehaviour of the remote UI / collaborators the code guards
\* against: "click" (a next click that is a no-op, renders late, raises, or a
\* missing control), "tbody" (the tbody unreadable when click_next records
\* it), "indicator" (active page button unreadable), "remote" (navigation,
\* container, extraction failures), "upload" (s3 upload failing after its
\* retries).
AllFaults == {"click", "tbody", "indicator", "remote", "upload"}

VARIABLES
    args,            \* main()'s parameters
    remote,          \* the remote list: number of pages, fault classes possible,
                     \* whether the run is followed as one of a shard set, and
                     \* whether it is followed to its end
    pc,              \* position of main()
    ui,              \* the browser page: view, page of the list, rendered tbody,
                     \* whether the switch-to-English link is shown
    cont,            \* the list container handle main() holds
    eff_start, current_page, n, processed_pages, row_count, r, uploaded_rows,
    ff,              \* frame of fast_forward_to_page
    cn,              \* frame of click_next / click_next_k
    recPath,         \* which recover_list call of the row iteration is running
    effects,         \* kinds of side effects performed so far by this worker
    ev,              \* what the last step did
    myPages,         \* pages this worker ran its row loop for
    prevPages,       \* pages earlier workers of the shard set ran theirs for
    master,          \* the master artifact MASTER_XLSX on disk
    row_dict,        \* the record of the last save_row_to_excels call
    up,              \* frame of s3_upload_file
    tried,           \* row indices the row loop has entered on this page
    files,           \* output files and upload keys this worker wrote
    prevFiles,       \* those earlier workers of the shard set wrote
    moved            \* where a click_next_k followed on its own began, its
                     \* click_next calls and their results

vars == <<args, remote, pc, ui, cont, eff_start, current_page, n,
          processed_pages, row_count, r, uploaded_rows, ff, cn, recPath,
          effects, ev, myPages, prevPages, master, row_dict, up, tried,
          files, prevFiles, moved>>

\* ---------------------------------------------------------------- helpers
Max(a, b) == IF a >= b THEN a ELSE b

\* Outcomes the environment may produce for an interaction of class f:
\* TRUE is the well-behaved outcome, FALSE the failure.
Outcomes(f) == IF f \in remote.faults THEN {TRUE, FALSE} ELSE {TRUE}

NoEv == [op |-> "none", master |-> FALSE, click |-> FALSE, warn |-> FALSE]
Ev(op) == [NoEv EXCEPT !.op = op]

NoFf == [target |-> 0, cur |-> None, steps |-> 0, caller |-> "none",
         from |-> 0]
NoCn == [attempt |-> 0, caller |-> "none", k |-> 0, ret |-> "none",
         prev |-> 0, enabled |-> FALSE, obs |-> <<>>]
NoMoved == [on |-> FALSE, kfrom |-> 0, req |-> 0, calls |-> 0, trues |-> 0,
            from |-> 0]

\* a validation that lets shard_index = shard_count through
ValidShards_IndexOffByOne(a) ==
    /\ ~(a.shard_count < 1)
    /\ (0 <= a.shard_index /\ a.shard_index <= a.shard_count)

\* lines 331-334: the shard parameters main() accepts
ValidShards(a) ==
    /\ ~(a.shard_count < 1)
    /\ (0 <= a.shard_index /\ a.shard_index < a.shard_count)

\* line 387
EffStart(a) ==
    Max(1, a.start_page) + (IF a.shard_count > 1 THEN a.shard_index ELSE 0)

\* line 449
Stride(a) == IF a.shard_count > 1 THEN a.shard_count ELSE 1

\* lines 139-146: the highlighted page number, None when unreadable
active_page_number(u, readable) ==
    IF u.view = "list" /\ readable THEN u.listPage ELSE None

\* Python's `x or y` on Optional[int]
Or(x, y) == IF x # None THEN x ELSE y

\* processed_pages as followed: in a run followed to its end --max-pages is
\* 0, line 443 never reads the count, and counts above MaxProcessed are
\* kept as MaxProcessed
Counted(x) == IF remote.toEnd /\ x > MaxProcessed THEN MaxProcessed ELSE x

\* current_page as followed: in a run followed to its end the page numbers
\* above every list's last page, which the code treats alike, are kept as
\* MaxPages + 1
Believed(x) == IF remote.toEnd /\ x > MaxPages + 1 THEN MaxPages + 1 ELSE x

\* -------------------------------------------------------- master artifact
MaxSaves == 3        \* save_row_to_excels calls followed on one master

\* labels extract_detail may find on a detail page besides the two keys it
\* always sets (lines 251-252)
Labels == {"Venue", "Hours"}

NaN == ""            \* a missing cell of a DataFrame, a blank cell of a sheet
NoFile == [exists |-> FALSE, header |-> <<>>, cells |-> <<>>]

Range(s) == {s[i] : i \in 1..Len(s)}
IndexOf(s, x) == CHOOSE i \in 1..Len(s) : s[i] = x

\* a dict is the sequence of its (key, value) items, in insertion order
Keys(d) == [i \in 1..Len(d) |-> d[i][1]]
Get(d, k) == d[IndexOf(Keys(d), k)][2]

\* the records extract_detail can return: URL and Activity ID first, then
\* the labels found, in page order; a label's text may be one read_excel
\* takes for a missing value
RowDicts ==
    {<<<<"URL", "text">>, <<"Activity ID", "text">>>>} \cup
    {<<<<"URL", "text">>, <<"Activity ID", "text">>, <<a, v>>>> :
        a \in Labels, v \in {"text", "N/A"}} \cup
    {<<<<"URL", "text">>, <<"Activity ID", "text">>,
       <<ab[1], v>>, <<ab[2], v>>>> :
        ab \in {p \in Labels \X Labels : p[1] # p[2]},
        v \in {"text", "N/A"}}

\* a column order that keeps the last occurrence of a repeated key
RECURSIVE dict_fromkeys_KeepLast(_)
dict_fromkeys_KeepLast(xs) ==
    IF xs = <<>> THEN <<>>
    ELSE LET rest == dict_fromkeys_KeepLast(Tail(xs))
         IN  IF Head(xs) \in Range(rest) THEN rest ELSE <<Head(xs)>> \o rest

\* line 298: list(dict.fromkeys(xs)), the first occurrences in order
RECURSIVE dict_fromkeys(_)
dict_fromkeys(xs) ==
    IF xs = <<>> THEN <<>>
    ELSE LET init == dict_fromkeys(SubSeq(xs, 1, Len(xs) - 1))
             last == xs[Len(xs)]
         IN  IF last \in Range(init) THEN init ELSE Append(init, last)

\* pd.DataFrame([row_dict]): one row, the dict's keys as columns
DataFrame(d) ==
    [columns |-> Keys(d), data |-> <<[j \in 1..Len(d) |-> d[j][2]]>>]

\* DataFrame.reindex(columns=cols): the cells of the columns kept, NaN in
\* the columns the frame did not have
reindex(df, cols) ==
    [columns |-> cols,
     data |-> [i \in 1..Len(df.data) |->
                 [j \in 1..Len(cols) |->
                     IF cols[j] \in Range(df.columns)
                     THEN df.data[i][IndexOf(df.columns, cols[j])]
                     ELSE NaN]]]

\* pd.concat([a, b], ignore_index=True) of frames with the same columns
concat(a, b) == [columns |-> a.columns, data |-> a.data \o b.data]

\* DataFrame.to_excel(path, index=False): a header row, then the rows, NaN
\* written as a blank cell
to_excel(df) == [exists |-> TRUE, header |-> df.columns, cells |-> df.data]

\* pd.read_excel(path): the header row gives the columns; blank cells and
\* the texts of its default na_values come back as NaN
read_excel(f) ==
    [columns |-> f.header,
     data |-> [i \in 1..Len(f.cells) |->
                 [j \in 1..Len(f.header) |->
                     IF f.cells[i][j] \in {"", "N/A"} THEN NaN
                     ELSE f.cells[i][j]]]]

\* lines 296-304: the master after save_row_to_excels(row_dict)
save_row_to_excels(f, d) ==
    IF f.exists
    THEN LET m == read_excel(f)
             all_cols == dict_fromkeys(m.columns \o Keys(d))
             m2 == reindex(m, all_cols)
             new_row == reindex(DataFrame(d), all_cols)
         IN  to_excel(concat(m2, new_row))
    ELSE to_excel(DataFrame(d))

\* --------------------------------------------------------- s3_upload_file
s3_retries == 5      \* s3_upload_file(..., retries: int = 5, ...)

NoUp == [client |-> FALSE, boto3 |-> FALSE, outcomes |-> <<>>,
         attempt |-> 0, ret |-> "none"]

\* lines 14-22: the cached client, made at the first call when boto3 can be
\* imported; a RuntimeError otherwise
get_s3(u) ==
    IF u.client THEN u
    ELSE IF u.boto3 THEN [u EXCEPT !.client = TRUE]
    ELSE [u EXCEPT !.ret = "raise"]

\* a retry loop that makes one attempt fewer
s3_attempt_OneFewer(u) ==
    LET a == u.attempt + 1
    IN  [u EXCEPT !.attempt = a,
                  !.ret = IF u.outcomes[a] THEN "true"
                          ELSE IF a >= s3_retries - 1 THEN "raise"
                          ELSE "none"]

\* lines 27-34: one pass of the loop of s3_upload_file: the attempt, True at
\* once when it succeeds, a sleep when it fails, and the RuntimeError after
\* the last one failed
s3_attempt(u) ==
    LET a == u.attempt + 1
    IN  [u EXCEPT !.attempt = a,
                  !.ret = IF u.outcomes[a] THEN "true"
                          ELSE IF a = s3_retries THEN "raise"
                          ELSE "none"]

\* ------------------------------------------------------------------- Init
ArgSpace ==
    [max_pages : 0..MaxCap, start_page : 0..MaxStart, s3_bucket : BOOLEAN,
     s3_master_every : 1..MaxEvery, shard_count : 0..MaxShards,
     shard_index : -1..MaxShards]

\* the runs explored: the remote well behaved, or misbehaving in one class
OneFault == {{}} \cup {{f} : f \in AllFaults \ {"click", "tbody"}}

\* everything main() has not touched yet
Fresh ==
    /\ ui = [view |-> "blank", listPage |-> 0, shown |-> 0,
             toggle |-> FALSE]
    /\ cont = "none"
    /\ eff_start = 0 /\ current_page = 0 /\ n = 0
    /\ processed_pages = 0 /\ row_count = 0 /\ r = 0 /\ uploaded_rows = 0
    /\ ff = NoFf /\ cn = NoCn /\ recPath = "none"
    /\ effects = {} /\ ev = NoEv
    /\ myPages = {} /\ prevPages = {}
    /\ master = NoFile /\ row_dict = <<>>
    /\ tried = <<>> /\ files = {} /\ prevFiles = {}
    /\ moved = NoMoved

InitWith(FS) ==
    /\ args \in ArgSpace
    /\ ~args.s3_bucket => args.s3_master_every = 1
    /\ remote \in [numPages : 1..MaxPages, faults : FS, shardSet : BOOLEAN,
                   toEnd : BOOLEAN]
    /\ pc = "validate"
    /\ Fresh /\ up = NoUp

Init == InitWith(OneFault) /\ ~remote.shardSet /\ ~remote.toEnd

\* runs in which the paginator misbehaves; uploads on, flushed at every row
InitClick ==
    /\ InitWith({{"click", "tbody"}})
    /\ ~remote.shardSet /\ ~remote.toEnd
    /\ args.s3_bucket /\ args.s3_master_every = 1

\* a shard set run against a well-behaved remote, first worker first
InitShards ==
    /\ InitWith({{}})
    /\ args.shard_index = 0
    /\ remote.shardSet /\ ~remote.toEnd

\* runs with --max-pages 0 and an upload target (uploaded_rows is reset at
\* every page end) followed to their end, against a remote that is well
\* behaved or whose active page button may be unreadable
InitLive ==
    /\ InitWith({{}, {"indicator"}})
    /\ ~remote.shardSet /\ remote.toEnd
    /\ args.max_pages = 0 /\ args.s3_bucket

\* ---------------------------------------------------------------- actions
\* lines 330-334
Validate ==
    /\ pc = "validate"
    /\ pc' = IF ValidShards(args) THEN "setup" ELSE "config_error"
    /\ ev' = Ev("validate")
    /\ UNCHANGED <<master, row_dict, up, moved, tried, files, prevFiles,
                   args, remote, ui, cont, eff_start, current_page, n,
                   processed_pages, row_count, r, uploaded_rows, ff, cn,
                   recPath, effects, myPages, prevPages>>

\* lines 336-346: shard-aware paths, ensure_out(), uploaded_rows = 0
Setup ==
    /\ pc = "setup"
    /\ pc' = "launch"
    /\ effects' = effects \cup {"paths"}
    /\ uploaded_rows' = 0
    /\ ev' = Ev("setup")
    /\ UNCHANGED <<master, row_dict, up, moved, tried, files, prevFiles,
                   args, remote, ui, cont, eff_start, current_page, n,
                   processed_pages, row_count, r, ff, cn, recPath,
                   myPages, prevPages>>

\* lines 367-371: launch the browser, open a page
Launch ==
    /\ pc = "launch"
    /\ pc' = "goto"
    /\ effects' = effects \cup {"launch"}
    /\ ev' = Ev("launch")
    /\ UNCHANGED <<master, row_dict, up, moved, tried, files, prevFiles,
                   args, remote, ui, cont, eff_start, current_page, n,
                   processed_pages, row_count, r, uploaded_rows, ff, cn,
                   recPath, myPages, prevPages>>

\* lines 373-379: page.goto(ROOT_URL) until it succeeds
Goto ==
    /\ pc = "goto"
    /\ \E ok \in Outcomes("remote"), arabic \in BOOLEAN :
        /\ pc' = IF ok THEN "english" ELSE "goto"
        /\ ui' = IF ok THEN [view |-> "list", listPage |-> 1, shown |-> 1,
                             toggle |-> arabic]
                        ELSE ui
    /\ effects' = effects \cup {"goto"}
    /\ ev' = Ev("goto")
    /\ UNCHANGED <<master, row_dict, up, moved, tried, files, prevFiles,
                   args, remote, cont, eff_start, current_page, n,
                   processed_pages, row_count, r, uploaded_rows, ff, cn,
                   recPath, myPages, prevPages>>

\* lines 202-222: one pass of robust_switch_to_english's loop. When the
\* link is shown it is clicked and the function returns once the list
\* component has loaded; when it is not shown the function returns if the
\* list component is there; an exception or a missing list leads to the
\* next pass. The click switches the language (the link goes away) unless
\* the remote misbehaves.
robust_switch_to_english ==
    /\ pc = "english"
    /\ \E switched \in Outcomes("remote"), loaded \in Outcomes("remote") :
        IF ui.toggle
        THEN /\ ui' = [ui EXCEPT !.toggle = ~switched]
             /\ pc' = IF loaded THEN "get_list" ELSE "english"
             /\ ev' = [Ev("english") EXCEPT !.click = TRUE]
        ELSE /\ ui' = ui
             /\ pc' = IF ui.view = "list" /\ loaded THEN "get_list"
                      ELSE "english"
             /\ ev' = Ev("english")
    /\ UNCHANGED <<master, row_dict, up, moved, tried, files, prevFiles,
                   args, remote, cont, eff_start, current_page, n,
                   processed_pages, row_count, r, uploaded_rows, ff, cn,
                   recPath, effects, myPages, prevPages>>

\* lines 98-113: get_list_container finds the list component, or raises once
\* its deadline has passed
get_list_container(u, ok) == u.view = "list" /\ ok

\* lines 383-393: first container, then the fast-forward to the shard's
\* effective start page (entered only when eff_start > 1)
GetList ==
    /\ pc = "get_list"
    /\ \E ok \in Outcomes("remote") :
        IF get_list_container(ui, ok)
        THEN /\ cont' = "fresh"
             /\ eff_start' = EffStart(args)
             /\ IF EffStart(args) > 1
                THEN /\ pc' = "ff_enter"
                     /\ ff' = [NoFf EXCEPT !.target = EffStart(args),
                                           !.caller = "main",
                                           !.from = ui.listPage]
                ELSE /\ pc' = "set_current"
                     /\ ff' = ff
        ELSE /\ pc' = "crashed"
             /\ UNCHANGED <<cont, eff_start, ff>>
    /\ ev' = Ev("get_list")
    /\ UNCHANGED <<master, row_dict, up, moved, tried, files, prevFiles,
                   args, remote, ui, current_page, n, processed_pages,
                   row_count, r, uploaded_rows, cn, recPath, effects,
                   myPages, prevPages>>

\* lines 177-181: fast_forward_to_page reads the active page, a second time
\* after wait_rows_ready when the first read gave None
FastForwardEnter ==
    /\ pc = "ff_enter"
    /\ \E r1 \in Outcomes("indicator"), r2 \in Outcomes("indicator") :
        ff' = [ff EXCEPT !.cur = Or(active_page_number(ui, r1),
                                    active_page_number(ui, r2)),
                         !.steps = 0]
    /\ pc' = "ff_loop"
    /\ ev' = Ev("ff_enter")
    /\ UNCHANGED <<master, row_dict, up, moved, tried, files, prevFiles,
                   args, remote, ui, cont, eff_start, current_page, n,
                   processed_pages, row_count, r, uploaded_rows, cn,
                   recPath, effects, myPages, prevPages>>

\* ------------------------------------------------------------- paginator
\* lines 115-119: the tbody's inner html, "" (here 0) when it cannot be read;
\* the rows of list page k are fingerprinted as k
tbody_html(u, readable) ==
    IF u.view = "list" /\ readable THEN u.shown ELSE 0

\* line 161: the next control is there and enabled (the paginator disables
\* it on the last page)
NextEnabled(u, present) ==
    u.view = "list" /\ present /\ u.listPage < remote.numPages

\* line 162: what btn.click() does to the list: the paginator moves one page
\* on when the click takes, and the rows of the page it is on are rendered
\* when the render completes within the wait
ClickEffect(u, takes, renders) ==
    LET pg == IF takes THEN u.listPage + 1 ELSE u.listPage
    IN  [u EXCEPT !.listPage = pg,
                  !.shown = IF renders THEN pg ELSE u.shown]

\* what the polls of wait_tbody_swap read while the list goes from u to v
Polls(u, v) ==
    IF v.shown = u.shown THEN <<tbody_html(u, TRUE)>>
    ELSE <<tbody_html(u, TRUE), tbody_html(v, TRUE)>>

\* a wait that takes any non-empty tbody for a swap
wait_tbody_swap_AnyContent(obs, prev_html) ==
    \E i \in 1..Len(obs) : obs[i] # 0

\* lines 148-155: True at the first poll that reads a non-empty tbody
\* different from prev_html, False when the timeout passes without one
wait_tbody_swap(obs, prev_html) ==
    \E i \in 1..Len(obs) : obs[i] # 0 /\ obs[i] # prev_html

\* what the environment decides during one iteration of click_next's loop:
\* a render still pending lands before the iteration (pre), the tbody is
\* readable at line 159 (rp), the next control is there (bp), the click takes
\* and its render completes within the wait, or the click raises
AttemptEnv ==
    [pre : IF ui.shown # ui.listPage THEN BOOLEAN ELSE {FALSE},
     rp : Outcomes("tbody"), bp : Outcomes("click"),
     takes : Outcomes("click"), renders : Outcomes("click"),
     raises : {~x : x \in Outcomes("click")}]

\* lines 158-166: one iteration of click_next's retry loop, the att-th, on
\* the page u under the environment's decisions e
click_next(u, att, e) ==
    LET u0 == IF e.pre THEN [u EXCEPT !.shown = u.listPage] ELSE u
        prev == tbody_html(u0, e.rp)
        enabled == NextEnabled(u0, e.bp)
        clicks == enabled /\ ~e.raises
        u1 == IF clicks THEN ClickEffect(u0, e.takes, e.renders) ELSE u0
        obs == IF clicks THEN Polls(u0, u1) ELSE <<>>
        ret == IF enabled /\ e.raises THEN "raise"
               ELSE IF clicks /\ wait_tbody_swap(obs, prev) THEN "true"
               ELSE IF att = retries THEN "false"
               ELSE "none"
    IN  [ui |-> u1, ret |-> ret, clicks |-> clicks,
         prev |-> IF ret = "true" THEN prev ELSE 0,
         obs |-> IF ret = "true" THEN obs ELSE <<>>,
         enabled |-> ret = "true" /\ enabled]

ClickNextAttempt ==
    /\ pc = "click_next"
    /\ \E o \in {click_next(ui, cn.attempt + 1, e) : e \in AttemptEnv} :
        /\ ui' = o.ui
        /\ cn' = [cn EXCEPT !.attempt = cn.attempt + 1, !.ret = o.ret,
                            !.prev = o.prev, !.enabled = o.enabled,
                            !.obs = o.obs]
        /\ pc' = IF o.ret = "none" THEN "click_next" ELSE "cn_ret"
        /\ effects' = IF o.clicks THEN effects \cup {"click"} ELSE effects
        /\ ev' = [Ev("click_next") EXCEPT !.click = o.clicks]
    /\ UNCHANGED <<master, row_dict, up, moved, tried, files, prevFiles,
                   args, remote, cont, eff_start, current_page, n,
                   processed_pages, row_count, r, uploaded_rows, ff,
                   recPath, myPages, prevPages>>

\* a call of click_next by `caller`, with k more passes of click_next_k's
\* loop to make after it
CallClickNext(caller, k) ==
    [NoCn EXCEPT !.caller = caller, !.k = k]

\* the for loop of line 405 abandoned instead of continued
NextRow_Break(rr) == row_count

\* lines 405, 412 and 437: the row loop goes on to its next index
NextRow(rr) == rr + 1

\* fast_forward_to_page is left: main() goes on to line 395, recover_list
\* returns to the row loop, which takes the next row
FastForwardLeave ==
    IF ff.caller = "main"
    THEN /\ pc' = "set_current"
         /\ UNCHANGED <<r, recPath>>
    ELSE /\ pc' = "rows"
         /\ r' = NextRow(r)
         /\ recPath' = "none"

\* lines 182-188: the loop test of fast_forward_to_page and, when it fails,
\* the warning and the return
FastForwardLoop ==
    /\ pc = "ff_loop"
    /\ ff.steps < MaxSteps
    /\ IF ff.cur # None /\ ff.cur < ff.target /\ ff.steps < hard_cap_steps
       THEN /\ pc' = "click_next"
            /\ cn' = CallClickNext("ff", 0)
            /\ ev' = Ev("ff_loop")
            /\ UNCHANGED <<r, recPath>>
       ELSE /\ FastForwardLeave
            /\ cn' = cn
            /\ ev' = [Ev("ff_return") EXCEPT !.warn = (ff.cur # ff.target)]
    /\ UNCHANGED <<master, row_dict, up, moved, tried, files, prevFiles,
                   args, remote, ui, cont, eff_start, current_page, n,
                   processed_pages, row_count, uploaded_rows, ff,
                   effects, myPages, prevPages>>

\* lines 183-186 after click_next returned: break on False, else re-read the
\* page and count the step; an exception of the click leaves the function
\* and is swallowed by the caller (lines 392, 320)
FastForwardAfterClick ==
    /\ pc = "cn_ret" /\ cn.caller = "ff"
    /\ \/ /\ cn.ret = "true"
          /\ \E rd \in Outcomes("indicator") :
              ff' = [ff EXCEPT
                       !.cur = Or(active_page_number(ui, rd), ff.cur + 1),
                       !.steps = ff.steps + 1]
          /\ pc' = "ff_loop"
          /\ ev' = Ev("ff_step")
          /\ UNCHANGED <<r, recPath>>
       \/ /\ cn.ret = "false"
          /\ FastForwardLeave
          /\ ff' = ff
          /\ ev' = [Ev("ff_return") EXCEPT !.warn = (ff.cur # ff.target)]
       \/ /\ cn.ret = "raise"
          /\ FastForwardLeave
          /\ ff' = ff
          /\ ev' = Ev("ff_raise")
    /\ cn' = NoCn
    /\ UNCHANGED <<master, row_dict, up, moved, tried, files, prevFiles,
                   args, remote, ui, cont, eff_start, current_page, n,
                   processed_pages, row_count, uploaded_rows,
                   effects, myPages, prevPages>>

\* a loop body that goes on after a click_next that returned False
click_next_k_IgnoresFalse(ret) ==
    IF ret = "raise" THEN "raise" ELSE "next"

\* lines 172-173: the body of click_next_k's loop, given what its click_next
\* call returned: the next pass, or False at once
click_next_k(ret) ==
    IF ret = "true" THEN "next"
    ELSE IF ret = "false" THEN "false"
    ELSE "raise"

\* lines 171 and 174, and 453: the head of click_next_k's loop with cn.k
\* passes left: the next click_next call, or True when none is left, which
\* main() takes at line 453 as having advanced
ClickNextKLoop ==
    /\ pc = "click_next_k"
    /\ IF cn.k > 0
       THEN /\ pc' = "click_next"
            /\ cn' = CallClickNext("k", cn.k - 1)
            /\ moved' = IF moved.on
                        THEN [moved EXCEPT !.calls = moved.calls + 1,
                                           !.from = ui.listPage]
                        ELSE moved
            /\ ev' = Ev("click_next_k")
            /\ UNCHANGED current_page
       ELSE /\ \E rd \in Outcomes("indicator") :
                current_page' = Believed(Or(active_page_number(ui, rd),
                                            current_page + Stride(args)))
            /\ pc' = "page_start"
            /\ cn' = NoCn
            /\ moved' = moved
            /\ ev' = Ev("advanced")
    /\ UNCHANGED <<master, row_dict, up,
                   args, remote, ui, cont, eff_start, n, processed_pages,
                   row_count, r, uploaded_rows, ff, recPath, effects,
                   myPages, prevPages, tried, files, prevFiles>>

\* lines 172-173 and 450-452: click_next_k after its click_next call has
\* returned, and what main() does when click_next_k returns False or raises
ClickNextKAfterClick ==
    /\ pc = "cn_ret" /\ cn.caller = "k"
    /\ \/ /\ click_next_k(cn.ret) = "next"
          /\ pc' = "click_next_k"
          /\ cn' = [NoCn EXCEPT !.caller = "k", !.k = cn.k]
          /\ ev' = Ev("click_next_k")
       \/ /\ click_next_k(cn.ret) = "false"
          /\ pc' = "final"
          /\ cn' = NoCn
          /\ ev' = Ev("last_page")
       \/ /\ click_next_k(cn.ret) = "raise"
          /\ pc' = "crashed"
          /\ cn' = NoCn
          /\ ev' = Ev("advance_raised")
    /\ moved' = IF moved.on /\ cn.ret = "true"
                THEN [moved EXCEPT !.trues = moved.trues + 1]
                ELSE moved
    /\ UNCHANGED <<master, row_dict, up,
                   args, remote, ui, cont, eff_start, current_page, n,
                   processed_pages, row_count, r, uploaded_rows, ff,
                   recPath, effects, myPages, prevPages, tried, files,
                   prevFiles>>

\* lines 395-396
SetCurrent ==
    /\ pc = "set_current"
    /\ processed_pages' = 0
    /\ \E rd \in Outcomes("indicator") :
        current_page' = Believed(Or(active_page_number(ui, rd), eff_start))
    /\ pc' = "page_start"
    /\ ff' = NoFf
    /\ ev' = Ev("set_current")
    /\ UNCHANGED <<master, row_dict, up, moved, tried, files, prevFiles,
                   args, remote, ui, cont, eff_start, n, row_count, r,
                   uploaded_rows, cn, recPath, effects, myPages,
                   prevPages>>

\* ---------------------------------------------------------- output paths
\* a file on disk or an upload key: the store, the shard directory of the
\* key's prefix, the file's name and shard suffix, the activity id
\* lines 338-339: MASTER_XLSX, suffixed by the shard unless shard_count is 1
MasterPath(a) ==
    [store |-> "disk", dir |-> <<0, 0>>, name |-> "master",
     sfx |-> IF a.shard_count = 1 THEN <<0, 0>>
             ELSE <<a.shard_index + 1, a.shard_count>>,
     id |-> <<0, 0>>]

\* lines 291-292: per_path, named by the record's Activity ID alone
PerPath(act_id) ==
    [store |-> "disk", dir |-> <<0, 0>>, name |-> "detail",
     sfx |-> <<0, 0>>, id |-> act_id]

\* lines 344, 351-352 and 362-363: the upload key of a local file, under the
\* prefix nested by shard
UploadKey(a, path) ==
    [path EXCEPT !.store = "s3",
                 !.dir = <<a.shard_index + 1, a.shard_count>>]

\* the Activity ID of the record behind row rr of the page the list shows
ActivityId(u, rr) == <<u.listPage, rr>>

\* ------------------------------------------------------------ run loop
\* lines 356-365: maybe_upload_master; ok is whether s3_upload_file succeeds
\* (it raises once its retries are used up)
maybe_upload_master(a, rows, force, ok) ==
    IF ~a.s3_bucket
    THEN [rows |-> rows, attempted |-> FALSE, raised |-> FALSE]
    ELSE IF force \/ rows >= a.s3_master_every
         THEN [rows |-> 0, attempted |-> TRUE, raised |-> ~ok]
         ELSE [rows |-> rows, attempted |-> FALSE, raised |-> FALSE]

\* a cap test that lets one page too many through
CapReached_OffByOne(a, processed) ==
    a.max_pages # 0 /\ processed > a.max_pages

\* line 443: the test of the --max-pages cap
CapReached(a, processed) ==
    a.max_pages # 0 /\ processed >= a.max_pages

\* lines 399-403: a page of the outer loop begins; rows.count() is read once
PageStart ==
    /\ pc = "page_start"
    /\ remote.toEnd \/ processed_pages < MaxProcessed
    /\ n' = current_page
    /\ myPages' = IF remote.shardSet THEN myPages \cup {current_page}
                  ELSE myPages
    /\ r' = 0
    /\ \E ok \in Outcomes("remote") :
        IF ok
        THEN /\ pc' = "rows"
             /\ row_count' \in (IF ui.view = "list" THEN 0..MaxRows ELSE {0})
        ELSE /\ pc' = "crashed"
             /\ row_count' = row_count
    /\ ff' = NoFf /\ cn' = NoCn
    /\ tried' = <<>>
    /\ ev' = Ev("page_start")
    /\ UNCHANGED <<master, row_dict, up, moved, files, prevFiles,
                   args, remote, ui, cont, eff_start, current_page,
                   processed_pages, uploaded_rows, recPath, effects,
                   prevPages>>

\* lines 405-433: one row up to the call of recover_list: find the view
\* affordance, open the detail, extract and save and upload, navigate back
RowIteration ==
    /\ pc = "rows" /\ r < row_count
    /\ \E eye \in Outcomes("remote"), nav \in Outcomes("remote"),
          ext \in Outcomes("remote"), upA \in Outcomes("upload"),
          upM \in Outcomes("upload"), back \in Outcomes("remote"),
          reset \in BOOLEAN :
        LET found == ui.view = "list" /\ eye
            saved == found /\ nav /\ ext
            rows1 == uploaded_rows + 1
            actUp == saved /\ args.s3_bucket
            m == IF saved /\ (actUp => upA)
                 THEN maybe_upload_master(args, rows1, FALSE, upM)
                 ELSE [rows |-> IF saved THEN rows1 ELSE uploaded_rows,
                       attempted |-> FALSE, raised |-> FALSE]
            pg == IF reset THEN 1 ELSE ui.listPage
            per_file == PerPath(ActivityId(ui, r))
            written ==
                (IF saved THEN {per_file, MasterPath(args)} ELSE {})
                \cup (IF actUp THEN {UploadKey(args, per_file)} ELSE {})
                \cup (IF m.attempted
                      THEN {UploadKey(args, MasterPath(args))} ELSE {})
        IN  /\ uploaded_rows' = m.rows
            /\ files' = IF remote.shardSet THEN files \cup written
                         ELSE files
            /\ effects' = effects
                   \cup (IF actUp \/ m.attempted THEN {"upload"} ELSE {})
            /\ IF ~found
               THEN /\ pc' = "rows" /\ r' = NextRow(r)
                    /\ recPath' = "none"
                    /\ ev' = Ev("row_skipped")
                    /\ UNCHANGED <<ui, cont>>
               ELSE IF ~nav
               THEN /\ pc' = "recover" /\ r' = r
                    /\ recPath' = "except"
                    /\ ev' = Ev("row_failed")
                    /\ UNCHANGED <<ui, cont>>
               ELSE /\ pc' = "recover" /\ r' = r
                    /\ cont' = "stale"
                    /\ recPath' = IF back THEN "try" ELSE "except"
                    /\ ui' = IF back
                             THEN [ui EXCEPT !.view = "list",
                                             !.listPage = pg,
                                             !.shown = pg]
                             ELSE [ui EXCEPT !.view = "detail"]
                    /\ ev' = [Ev(IF saved THEN "row_saved" ELSE "row_lost")
                                EXCEPT !.master = m.attempted]
    /\ ff' = NoFf /\ cn' = NoCn
    /\ tried' = Append(tried, r)
    /\ UNCHANGED <<master, row_dict, up, moved, prevFiles,
                   args, remote, eff_start, current_page, n,
                   processed_pages, row_count, myPages, prevPages>>

\* lines 308-322 as called at lines 431 and 435: recover_list re-acquires the
\* container and fast-forwards when the active page is not the expected one;
\* when it raises inside the try it is called again by the handler, and when
\* it raises there the loop continues with the next row
RecoverList ==
    /\ pc = "recover"
    /\ \E ok \in Outcomes("remote"), rd \in Outcomes("indicator") :
        IF get_list_container(ui, ok)
        THEN /\ cont' = "fresh"
             /\ IF n # None /\ active_page_number(ui, rd) # n
                THEN /\ pc' = "ff_enter"
                     /\ ff' = [NoFf EXCEPT !.target = n, !.caller = "recover",
                                           !.from = ui.listPage]
                     /\ ev' = Ev("recover_ff")
                     /\ UNCHANGED <<r, recPath>>
                ELSE /\ pc' = "rows" /\ r' = NextRow(r)
                     /\ recPath' = "none"
                     /\ ff' = ff
                     /\ ev' = Ev("recovered")
        ELSE /\ UNCHANGED <<cont, ff>>
             /\ IF recPath = "try"
                THEN /\ pc' = "recover" /\ recPath' = "except"
                     /\ ev' = Ev("recover_retry")
                     /\ r' = r
                ELSE /\ pc' = "rows" /\ r' = NextRow(r)
                     /\ recPath' = "none"
                     /\ ev' = Ev("recover_failed")
    /\ UNCHANGED <<master, row_dict, up, moved, tried, files, prevFiles,
                   args, remote, ui, eff_start, current_page, n,
                   processed_pages, row_count, uploaded_rows, cn, effects,
                   myPages, prevPages>>

\* lines 439-450: the page is counted, the master is uploaded (forced), the
\* cap is tested and click_next_k(stride) is called
PageEnd ==
    /\ pc = "rows" /\ r >= row_count
    /\ processed_pages' = Counted(processed_pages + 1)
    /\ \E ok \in Outcomes("upload") :
        LET m == maybe_upload_master(args, uploaded_rows, TRUE, ok)
        IN  /\ uploaded_rows' = m.rows
            /\ files' = IF remote.shardSet /\ m.attempted
                         THEN files \cup {UploadKey(args, MasterPath(args))}
                         ELSE files
            /\ effects' = IF m.attempted THEN effects \cup {"upload"}
                          ELSE effects
            /\ IF m.raised
               THEN /\ pc' = "crashed"
                    /\ cn' = NoCn
                    /\ ev' = [Ev("page_end") EXCEPT !.master = TRUE]
               ELSE IF CapReached(args, processed_pages + 1)
               THEN /\ pc' = "final"
                    /\ cn' = NoCn
                    /\ ev' = [Ev("cap") EXCEPT !.master = m.attempted]
               ELSE /\ pc' = "click_next_k"
                    /\ cn' = [NoCn EXCEPT !.caller = "k",
                                          !.k = Stride(args)]
                    /\ ev' = [Ev("page_end") EXCEPT !.master = m.attempted]
    /\ ff' = NoFf
    /\ UNCHANGED <<master, row_dict, up, moved, tried, prevFiles,
                   args, remote, ui, cont, eff_start, current_page, n,
                   row_count, r, recPath, myPages, prevPages>>

\* lines 455-456: the forced upload at the end of the run, browser.close()
Final ==
    /\ pc = "final"
    /\ \E ok \in Outcomes("upload") :
        LET m == maybe_upload_master(args, uploaded_rows, TRUE, ok)
        IN  /\ uploaded_rows' = m.rows
            /\ files' = IF remote.shardSet /\ m.attempted
                         THEN files \cup {UploadKey(args, MasterPath(args))}
                         ELSE files
            /\ effects' = IF m.attempted THEN effects \cup {"upload"}
                          ELSE effects
            /\ pc' = IF m.raised THEN "crashed" ELSE "done"
            /\ ev' = [Ev("final") EXCEPT !.master = m.attempted]
    /\ UNCHANGED <<master, row_dict, up, moved, tried, prevFiles,
                   args, remote, ui, cont, eff_start, current_page, n,
                   processed_pages, row_count, r, ff, cn, recPath,
                   myPages, prevPages>>

Next ==
    \/ Validate \/ Setup \/ Launch \/ Goto \/ robust_switch_to_english
    \/ GetList \/ FastForwardEnter \/ FastForwardLoop \/ ClickNextAttempt
    \/ FastForwardAfterClick \/ ClickNextKLoop \/ ClickNextKAfterClick
    \/ SetCurrent
    \/ PageStart \/ RowIteration \/ RecoverList \/ PageEnd \/ Final

\* lines 459-495: the next worker of the shard set is started, a process of
\* its own with a browser of its own, once the worker before it has ended
NextWorker ==
    /\ remote.shardSet
    /\ pc \in {"done", "crashed"}
    /\ args.shard_index + 1 < args.shard_count
    /\ args' = [args EXCEPT !.shard_index = args.shard_index + 1]
    /\ prevPages' = prevPages \cup myPages
    /\ myPages' = {}
    /\ pc' = "validate"
    /\ ui' = [view |-> "blank", listPage |-> 0, shown |-> 0,
             toggle |-> FALSE]
    /\ cont' = "none"
    /\ eff_start' = 0 /\ current_page' = 0 /\ n' = 0
    /\ processed_pages' = 0 /\ row_count' = 0 /\ r' = 0
    /\ uploaded_rows' = 0
    /\ ff' = NoFf /\ cn' = NoCn /\ recPath' = "none"
    /\ effects' = {} /\ ev' = NoEv
    /\ prevFiles' = prevFiles \cup files
    /\ files' = {} /\ tried' = <<>>
    /\ UNCHANGED <<remote, master, row_dict, up, moved>>

NextShards == Next \/ NextWorker

Spec == Init /\ [][Next]_vars
SpecClick == InitClick /\ [][Next]_vars
SpecShards == InitShards /\ [][NextShards]_vars

\* main() is one sequential process that runs whenever it can take a step
SpecLive == InitLive /\ [][Next]_vars /\ WF_vars(Next)
\* --------------------------------------- save_row_to_excels, on its own
\* the variables of main() and of the browser
workerVars == <<args, remote, ui, cont, eff_start, current_page, n,
                processed_pages, row_count, r, uploaded_rows, ff, cn,
                recPath, effects, ev, myPages, prevPages, tried, files,
                prevFiles, moved>>

\* the defaults of the argument parser (lines 461-482), with
\* s3_master_every inside the range followed
DefaultArgs ==
    [max_pages |-> 0, start_page |-> 1, s3_bucket |-> FALSE,
     s3_master_every |-> 1, shard_count |-> 1, shard_index |-> 0]

\* a worker about to save records, no master on disk yet
InitSave ==
    /\ args = DefaultArgs
    /\ remote = [numPages |-> 1, faults |-> {}, shardSet |-> FALSE,
                 toEnd |-> FALSE]
    /\ pc = "save_row_to_excels"
    /\ Fresh /\ up = NoUp

\* lines 289-305: one call of save_row_to_excels
SaveRow ==
    /\ pc = "save_row_to_excels"
    /\ Len(master.cells) < MaxSaves
    /\ \E d \in RowDicts :
        /\ row_dict' = d
        /\ master' = save_row_to_excels(master, d)
    /\ UNCHANGED <<workerVars, pc, up>>

SpecSave == InitSave /\ [][SaveRow]_vars

\* ------------------------------------------- s3_upload_file, on its own
\* a worker about to upload a file: boto3 importable or not, and what each
\* of the upload attempts it may make would do
InitUpload ==
    /\ args = [DefaultArgs EXCEPT !.s3_bucket = TRUE]
    /\ remote = [numPages |-> 1, faults |-> {"upload"}, shardSet |-> FALSE,
                 toEnd |-> FALSE]
    /\ pc = "get_s3"
    /\ Fresh
    /\ up \in [client : {FALSE}, boto3 : BOOLEAN,
               outcomes : [1..s3_retries -> BOOLEAN], attempt : {0},
               ret : {"none"}]

\* line 25
GetS3 ==
    /\ pc = "get_s3"
    /\ up' = get_s3(up)
    /\ pc' = IF get_s3(up).ret = "raise" THEN "s3_returned"
             ELSE "s3_upload_file"
    /\ UNCHANGED <<workerVars, master, row_dict>>

\* lines 27-34
S3Attempt ==
    /\ pc = "s3_upload_file"
    /\ up' = s3_attempt(up)
    /\ pc' = IF s3_attempt(up).ret = "none" THEN "s3_upload_file"
             ELSE "s3_returned"
    /\ UNCHANGED <<workerVars, master, row_dict>>

NextUpload == GetS3 \/ S3Attempt

SpecUpload == InitUpload /\ [][NextUpload]_vars
\* --------------------------------------------- click_next_k, on its own
MaxK == 2            \* click_next_k is called with k in 0..MaxK

\* a connected worker holding the container of a list that shows some page
\* with its rows rendered, and a paginator that may misbehave
InitPaginator ==
    /\ args = DefaultArgs
    /\ remote \in [numPages : 1..MaxPages, faults : {{"click"}},
                   shardSet : {FALSE}, toEnd : {FALSE}]
    /\ pc = "call_click_next_k"
    /\ \E p \in 1..remote.numPages :
        ui = [view |-> "list", listPage |-> p, shown |-> p,
              toggle |-> FALSE]
    /\ cont = "fresh"
    /\ eff_start = 1 /\ current_page = ui.listPage /\ n = ui.listPage
    /\ processed_pages = 0 /\ row_count = 0 /\ r = 0 /\ uploaded_rows = 0
    /\ ff = NoFf /\ cn = NoCn /\ recPath = "none"
    /\ effects = {"paths", "launch", "goto"} /\ ev = NoEv
    /\ myPages = {} /\ prevPages = {}
    /\ master = NoFile /\ row_dict = <<>> /\ up = NoUp
    /\ tried = <<>> /\ files = {} /\ prevFiles = {}
    /\ moved = NoMoved

\* lines 169-170: click_next_k(container, k) is called
ClickNextKCall ==
    /\ pc = "call_click_next_k"
    /\ \E k \in 0..MaxK :
        /\ cn' = [NoCn EXCEPT !.caller = "k", !.k = k]
        /\ moved' = [NoMoved EXCEPT !.on = TRUE, !.kfrom = ui.listPage,
                                    !.req = k]
    /\ pc' = "click_next_k"
    /\ ev' = Ev("call_click_next_k")
    /\ UNCHANGED <<master, row_dict, up,
                   args, remote, ui, cont, eff_start, current_page, n,
                   processed_pages, row_count, r, uploaded_rows, ff,
                   recPath, effects, myPages, prevPages, tried, files,
                   prevFiles>>

NextPaginator ==
    ClickNextKCall \/ ClickNextKLoop \/ ClickNextAttempt
    \/ ClickNextKAfterClick

SpecPaginator == InitPaginator /\ [][NextPaginator]_vars

\* ----------------------------------------------------------------- claims
\* the shard parameters lines 331-334 reject, written out
BadShards ==
    \/ args.shard_count < 1
    \/ args.shard_index \notin 0..(args.shard_count - 1)

\* the page a worker's j-th pass of the page loop is planned to be for
PlannedPage(j) == EffStart(args) + j * Stride(args)

\* C1: across the workers of a shard set run with the same (startPage,
\* shardCount), no page has its row loop run by two workers, and once the
\* last worker has ended the pages processed are startPage, startPage+1, ...
\* without a gap (startPage read as max(1, startPage), as line 387 does).
C1_ShardsDisjointGapFree ==
    /\ myPages \cap prevPages = {}
    /\ (pc = "done" /\ args.shard_index = args.shard_count - 1) =>
         LET all == myPages \cup prevPages
             s0 == Max(1, args.start_page)
         IN  all = s0..(s0 + Cardinality(all) - 1)

\* C2: while every next click needed so far could advance the list (the
\* planned page exists), the j-th page a worker processes is
\* max(1, startPage) + shardIndex + j*shardCount (j*1 when unsharded).
C2_JthPageIsPlanned ==
    (pc = "rows" /\ PlannedPage(processed_pages) <= remote.numPages)
        => n = PlannedPage(processed_pages)

\* C3: invalid shard parameters end main() with the configuration error
\* before any path creation, launch, navigation, click or upload; valid ones
\* never give the configuration error.
C3_ConfigErrorBeforeAnything ==
    /\ (BadShards /\ pc # "validate") =>
          (pc = "config_error" /\ effects = {} /\ ui.view = "blank"
           /\ cont = "none")
    /\ ~BadShards => pc # "config_error"

C3_Witness ==
    /\ pc = "config_error"
    /\ args.shard_count >= 1 /\ args.shard_index = args.shard_count

\* C4: click_next returns True only after a click on an enabled next control
\* whose wait read a non-empty tbody different from the one recorded before
\* that click, and returns False only when all 3 attempts were used up.
C4_TrueOnlyOnObservedSwap ==
    /\ cn.attempt <= 3
    /\ cn.ret = "true" =>
          /\ cn.enabled
          /\ \E i \in 1..Len(cn.obs) : cn.obs[i] # 0 /\ cn.obs[i] # cn.prev
    /\ cn.ret = "false" => cn.attempt = 3

C4_Witness ==
    /\ pc = "cn_ret" /\ cn.ret = "true" /\ cn.attempt = 3
    /\ cn.prev # 0

\* C5: fast_forward_to_page entered with the list on page 1, every next
\* click advancing one page up to the last page, comes back with the list on
\* its target when the target exists, warns when it does not, and does not
\* raise.
C5_FastForwardLands ==
    /\ ev.op # "ff_raise"
    /\ (ev.op = "ff_return" /\ ff.from = 1) =>
          IF ff.target <= remote.numPages
          THEN ui.listPage = ff.target
          ELSE ev.warn

\* C6: whenever a row iteration starts, the live list shows page n.
C6_RowStartsOnBelievedPage ==
    (pc = "rows" /\ r < row_count) =>
        (ui.view = "list" /\ ui.listPage = n)

\* C7: with valid shard parameters main() never ends with an uncaught error.
C7_NoUncaughtError == pc # "crashed"

\* C8: when recover_list could not re-acquire the container in both of its
\* calls for a row, the worker reconnects (root url, language) and holds a
\* fresh container before it takes another row.
C8_EscalatesToReconnect ==
    ev.op = "recover_failed" =>
        (pc \in {"goto", "english", "get_list"} /\ cont # "stale")

\* C9: with --max-pages N >= 1 never more than N pages are counted, the loop
\* is left as soon as the N-th is, and click_next is not entered once the
\* cap is reached; with --max-pages 0 the loop is left only by a failed
\* stride advance.
C9_MaxPagesCap ==
    /\ args.max_pages >= 1 =>
          /\ processed_pages <= args.max_pages
          /\ processed_pages = args.max_pages =>
                 pc \in {"final", "done", "crashed"}
    /\ (args.max_pages = 0 /\ pc = "final") => ev.op = "last_page"

C9_Witness ==
    /\ pc = "final" /\ ev.op = "cap"
    /\ args.max_pages = MaxCap /\ processed_pages = MaxCap
    /\ ui.listPage < remote.numPages

\* C10: with an upload target the master is uploaded at every page end and
\* at the end of the run, and within a page as soon as the records saved
\* since the last master upload reach s3_master_every; without a target no
\* upload is attempted.
C10_MasterUploads ==
    /\ args.s3_bucket =>
          /\ ev.op \in {"page_end", "cap", "final"} => ev.master
          /\ pc = "done" => ev.op = "final"
          /\ uploaded_rows < args.s3_master_every
    /\ ~args.s3_bucket => "upload" \notin effects
\* C11: every save_row_to_excels call appends exactly one row to the master;
\* the columns after it are the columns before it followed by the record's
\* keys not seen before, in record order; the new row holds the record's
\* values and is blank in the columns the record lacks.
C11_SaveAppendsRow ==
    [][master' # master =>
        LET d == row_dict'
            unseen == SelectSeq(Keys(d),
                                LAMBDA k : k \notin Range(master.header))
            last == master'.cells[Len(master'.cells)]
        IN  /\ Len(master'.cells) = Len(master.cells) + 1
            /\ master'.header = master.header \o unseen
            /\ \A j \in 1..Len(master'.header) :
                  IF master'.header[j] \in Range(Keys(d))
                  THEN last[j] = Get(d, master'.header[j])
                  ELSE last[j] = NaN]_vars

C11_Witness ==
    /\ Len(master.cells) = 3
    /\ master.header = <<"URL", "Activity ID", "Hours", "Venue">>
    /\ Keys(row_dict) = <<"URL", "Activity ID", "Venue">>
    /\ master.cells[3][3] = NaN
    /\ master.cells[1][4] = NaN

\* C13 as stated: s3_upload_file makes at most 5 attempts, returns True at
\* the first attempt that succeeds, and raises if and only if all 5 attempts
\* failed.
C13_RaisesIffAllFailed ==
    /\ up.attempt <= s3_retries
    /\ up.ret = "true" =>
          /\ up.outcomes[up.attempt]
          /\ \A i \in 1..(up.attempt - 1) : ~up.outcomes[i]
    /\ up.ret = "raise" <=>
          /\ up.attempt = s3_retries
          /\ \A i \in 1..s3_retries : ~up.outcomes[i]

\* C13 amended: as C13, but it raises if and only if the client could not be
\* made (then without any attempt) or all 5 attempts failed.
C13_RaisesIffNoClientOrAllFailed ==
    /\ up.attempt <= s3_retries
    /\ up.ret = "true" =>
          /\ up.outcomes[up.attempt]
          /\ \A i \in 1..(up.attempt - 1) : ~up.outcomes[i]
    /\ up.ret = "raise" <=>
          \/ ~up.boto3 /\ up.attempt = 0 /\ pc = "s3_returned"
          \/ /\ up.attempt = s3_retries
             /\ \A i \in 1..s3_retries : ~up.outcomes[i]
    /\ (pc = "s3_upload_file" /\ up.attempt > 0) =>
          \A i \in 1..up.attempt : ~up.outcomes[i]

C13_Witness ==
    /\ pc = "s3_returned" /\ up.ret = "raise" /\ up.attempt = s3_retries
    /\ up.client
\* C12: no output file and no upload key is written by two workers of a
\* shard set (same shardCount, different shardIndex): master paths, upload
\* keys and per-record paths of different workers are distinct.
C12_NoSharedOutput == files \cap prevFiles = {}

\* C16: on every page the row indices 0..rowCount-1 are entered in
\* increasing order, each once, whatever failed on the rows before; a failed
\* extraction is followed by the back-navigation and recover_list for the
\* same page; the page is counted only after the last row.
C16_EveryRowAttempted ==
    /\ pc = "rows" => (r <= row_count /\ tried = [i \in 1..r |-> i - 1])
    /\ pc = "recover" => tried = [i \in 1..(r + 1) |-> i - 1]
    /\ ev.op \in {"page_end", "cap"} =>
          tried = [i \in 1..row_count |-> i - 1]
    /\ ev.op \in {"row_lost", "row_failed"} =>
          (pc = "recover" /\ n = current_page /\ r < row_count)

C16_Witness ==
    /\ pc = "rows" /\ ev.op = "recover_failed"
    /\ row_count = MaxRows /\ r = 1 /\ tried = <<0>>
\* C14: on a list of finitely many pages whose next control is disabled on
\* the last page, a connected worker run with --max-pages 0 eventually ends.
C14_RunEnds == <>(pc \in {"done", "crashed", "config_error"})
\* C15: click_next_k(k) returns True if and only if k click_next calls in a
\* row each returned True; at the first click_next that returns False it
\* returns False at once, making no further call; for k = 0 it returns True
\* without a click.
C15_AllOrNothing ==
    moved.on =>
      /\ moved.trues <= moved.calls /\ moved.calls <= moved.req
      /\ ev.op = "advanced" =>
            (moved.trues = moved.req /\ moved.calls = moved.req)
      /\ ev.op = "last_page" =>
            (moved.calls = moved.trues + 1 /\ pc = "final")
      /\ (pc \in {"final", "crashed"} /\ ev.op # "last_page") =>
            ev.op = "advance_raised"
      /\ (moved.req = 0 /\ pc # "call_click_next_k") =>
            (pc \in {"click_next_k", "page_start"}
             /\ ui.listPage = moved.kfrom /\ "click" \notin effects)

C15_Witness ==
    /\ moved.on /\ ev.op = "last_page"
    /\ moved.req = MaxK /\ moved.calls = 1 /\ moved.trues = 0

\* C19: a click_next call that returns True has advanced the list by exactly
\* one page, and a click_next_k(k) that returns True by exactly k pages.
C19_TrueAdvancesOnePage ==
    moved.on =>
      /\ (pc = "cn_ret" /\ cn.ret = "true") =>
            ui.listPage = moved.from + 1
      /\ ev.op = "advanced" => ui.listPage = moved.kfrom + moved.req
\* C17: robust_switch_to_english returns only with the switch-language link
\* absent and the list component present.
C17_ReturnsInEnglish ==
    (ev.op = "english" /\ pc = "get_list") =>
        (~ui.toggle /\ ui.view = "list")
\* C18: when click_next_k returns False after a page, the page loop ends
\* without raising: no further row is opened and no further page counted,
\* and the forced master upload of the end of the run and the browser close
\* are executed.
C18_FailedStrideEndsCleanly ==
    [][/\ (pc = "cn_ret" /\ cn.caller = "k" /\ cn.ret = "false") =>
            (pc' = "final" /\ processed_pages' = processed_pages
             /\ tried' = tried /\ r' = r)
       /\ (pc = "final" /\ ev.op = "last_page") =>
            (pc' = "done" /\ (args.s3_bucket => ev'.master))]_vars

\* C20: within one worker run the page numbers of successive passes of the
\* page loop are strictly increasing.
C20_PagesStrictlyIncrease ==
    [][(pc = "page_start" /\ processed_pages > 0) => n' > n]_vars
====
